---- MODULE Spec2Model ----
(***************************************************************************)
(* dev_crawl.py: the tree rewriter that inserts Entering/Exiting trace     *)
(* statements, the multi-unit driver that writes the instrumented files,  *)
(* and the offline consumers of a trace log (plain-text reconstruction,   *)
(* markup reconstruction, frequency aggregation).                         *)
(*                                                                         *)
(* Text is modelled as a sequence of tokens.  The characters the code      *)
(* looks at one by one (quote, blank, newline, dot, path separator) are    *)
(* tokens of their own; every other token is an atomic run of characters   *)
(* that contains none of them.  A file is the token sequence of its bytes. *)
(***************************************************************************)
EXTENDS Integers, Sequences, FiniteSets, TLC

VARIABLES
  files,            \* the file system: absolute path -> content
  \* ---- trace-log consumers
  pc,               \* position of the running operation
  op,               \* the entry point that was called
  result,           \* how the operation ended
  log_file_path,    \* argument of the entry point
  output_file_path, \* path handed to the reconstructor
  lines,            \* lines read from the log
  pos,              \* number of lines the scan loop has consumed
  enter_count,      \* the depth counter of the scan loop
  grouped_lines,    \* output accumulated by the scan loop
  function_calls,   \* insertion-ordered mapping of the aggregator
  written,          \* absolute paths written by the operation, in order
  files_at_call,    \* the file system as it was when the operation began
  \* ---- DebugTransformer and its walk over one unit
  tree,                  \* the parsed unit, as the walk meets its nodes
  script_identifier,     \* file name of the unit
  modified_scripts,      \* base names of the units rewritten together
  debug_to_file,         \* trace statements append to a file, or print
  function_call_counter, \* definitions visited so far, by function name
  current_function,      \* name of the definition being visited, or None
  visit_at,              \* index of the next node the walk visits
  visit_stack,           \* the visits in progress, innermost first
  modified_tree,         \* the rewritten unit built so far
  \* ---- transform_scripts
  scripts,          \* the unit paths, in input order
  script_index,     \* number of units the loop has finished
  modified_paths,   \* insertion-ordered mapping: unit path -> rewritten path
  transformers,     \* identifiers of the units that have a transformer
  exit_code,        \* exit status of the process, or None while it runs
  \* ---- handle_script_modification
  non_interactive,  \* the flag that suppresses the overwrite prompt
  response          \* what the user typed at the prompt, once asked

logVars == <<pc, op, result, log_file_path, output_file_path, lines, pos,
             enter_count, grouped_lines, function_calls, written,
             files_at_call>>

walkVars == <<tree, script_identifier, function_call_counter,
              current_function, visit_at, visit_stack, modified_tree>>

driverVars == <<scripts, script_index, modified_paths, transformers,
                exit_code, non_interactive, response>>

vars == <<files, logVars, modified_scripts, debug_to_file, walkVars,
          driverVars>>

----------------------------------------------------------------------------
(* Bounds *)

\* lines of a log after its first line
MaxLogLen == 4
\* nodes of a unit
MaxTreeLen == 6
\* import statements at the head of a unit
MaxImports == 1
\* unit paths handed to transform_scripts
MaxScripts == 3

----------------------------------------------------------------------------
(* Text primitives (Python str methods on token sequences) *)

NL == "\n"
SP == " "
QUOTE == "'"
DOT == "."
SEP == "/"
INDENT == "    "

\* the keywords of a trace message
ENTERING == "Entering"
EXITING == "Exiting"

Whitespace == {SP, NL, INDENT}

Max(a, b) == IF a >= b THEN a ELSE b

RECURSIVE Concat(_)
Concat(ss) == IF ss = <<>> THEN <<>> ELSE Head(ss) \o Concat(Tail(ss))

RECURSIVE Repeat(_, _)
\* s * n : the empty string when n <= 0
Repeat(s, n) == IF n <= 0 THEN <<>> ELSE s \o Repeat(s, n - 1)

\* "kw in line"
Contains(line, kw) == \E i \in DOMAIN line : line[i] = kw

RECURSIVE SplitOn(_, _)
\* line.split(sep) for a separator out of the set seps: empty parts are kept
SplitOn(s, seps) ==
  IF s = <<>> THEN << <<>> >>
  ELSE LET rest == SplitOn(Tail(s), seps)
       IN  IF Head(s) \in seps
             THEN << <<>> >> \o rest
             ELSE << <<Head(s)>> \o Head(rest) >> \o Tail(rest)

NonEmpty(part) == part # <<>>

\* line.split(): runs of whitespace separate, empty parts are dropped
SplitWs(s) == SelectSeq(SplitOn(s, Whitespace), NonEmpty)

RECURSIVE LStrip(_, _)
LStrip(s, chars) ==
  IF s # <<>> /\ Head(s) \in chars THEN LStrip(Tail(s), chars) ELSE s

RECURSIVE RStrip(_, _)
RStrip(s, chars) ==
  IF s # <<>> /\ s[Len(s)] \in chars
    THEN RStrip(SubSeq(s, 1, Len(s) - 1), chars) ELSE s

\* s.strip() and s.strip("'")
Strip(s, chars) == RStrip(LStrip(s, chars), chars)

\* line.isspace()
IsSpace(s) == s # <<>> /\ \A i \in DOMAIN s : s[i] \in Whitespace

RECURSIVE ReadLines(_)
\* file.readlines(): each line keeps its newline
ReadLines(content) ==
  IF content = <<>> THEN <<>>
  ELSE LET nls == {i \in DOMAIN content : content[i] = NL}
           cut == IF nls = {} THEN Len(content)
                  ELSE CHOOSE i \in nls : \A j \in nls : i <= j
       IN  <<SubSeq(content, 1, cut)>>
             \o ReadLines(SubSeq(content, cut + 1, Len(content)))

\* file.readline(): the first line, or the empty string at end of file
ReadLine(content) ==
  IF content = <<>> THEN <<>> ELSE Head(ReadLines(content))

RECURSIVE SeqsUpTo(_, _)
\* all sequences over S of length at most n
SeqsUpTo(S, n) ==
  IF n = 0 THEN {<<>>}
  ELSE LET shorter == SeqsUpTo(S, n - 1)
       IN  shorter \cup {<<x>> \o s : x \in S, s \in {t \in shorter : Len(t) = n - 1}}

----------------------------------------------------------------------------
(* Paths *)

\* last index of token c in p, 0 when absent (str.rfind, 1-based)
RFind(p, c) ==
  LET hits == {i \in DOMAIN p : p[i] = c}
  IN  IF hits = {} THEN 0 ELSE CHOOSE i \in hits : \A j \in hits : j <= i

\* os.path.splitext: the extension starts at the last dot of the final
\* path component, unless that component holds only leading dots before it
splitext(p) ==
  LET sepIndex == RFind(p, SEP)
      dotIndex == RFind(p, DOT)
  IN  IF dotIndex > sepIndex
           /\ \E k \in (sepIndex + 1)..(dotIndex - 1) : p[k] # DOT
        THEN <<SubSeq(p, 1, dotIndex - 1), SubSeq(p, dotIndex, Len(p))>>
        ELSE <<p, <<>> >>

\* os.path.basename
basename(p) == SubSeq(p, RFind(p, SEP) + 1, Len(p))

Cwd == <<SEP, "cwd">>

\* os.path.abspath for paths without "." and ".." components
generate_file_path(p) ==
  IF p # <<>> /\ Head(p) = SEP THEN p ELSE Cwd \o <<SEP>> \o p

Exists(fs, p) == generate_file_path(p) \in DOMAIN fs

Open(fs, p) == fs[generate_file_path(p)]

\* open(p, "w") ... write(content)
WriteFile(fs, p, content) ==
  LET a == generate_file_path(p)
  IN  [x \in DOMAIN fs \cup {a} |-> IF x = a THEN content ELSE fs[x]]

NoFiles == [x \in {} |-> <<>>]

----------------------------------------------------------------------------
(* DebugTransformer: the nodes of a unit *)

\* self.current_function = None
None == "None"

\* A unit is the sequence of its statements in the order the walk meets
\* them.  A compound statement opens with its node and is closed by End.
\* Block is any compound statement that has no visitor of its own (class,
\* if, for, while, with, try, async def): generic_visit walks through it.
\* Pass is any simple statement that has no visitor of its own.
FunctionDef(name) == [kind |-> "FunctionDef", name |-> name]
Block == [kind |-> "Block"]
End == [kind |-> "End"]
Return == [kind |-> "Return"]
Pass == [kind |-> "Pass"]
Import(names) == [kind |-> "Import", names |-> names]
\* module is the empty string for "from . import x"
ImportFrom(module) == [kind |-> "ImportFrom", module |-> module]

FunctionNames == {"f", "g"}

\* module and unit names are spelled one character per token
ModuleT == <<"t">>
ModuleUT == <<"u", "t">>
ModuleOS == <<"o", "s">>
ModulePT == <<"p", DOT, "t">>

ImportNodes ==
  { Import(<<ModuleT>>),
    Import(<<ModuleOS>>),
    Import(<<ModulePT>>),
    Import(<<ModuleUT, ModuleT>>),
    Import(<<ModuleT, ModuleUT>>),
    ImportFrom(ModuleT),
    ImportFrom(ModuleUT),
    ImportFrom(ModuleOS),
    ImportFrom(<<>>) }

Opens == {FunctionDef(name) : name \in FunctionNames} \cup {Block}

RECURSIVE Streams(_, _, _)
\* the statement sequences of n nodes, none of them an import, that close
\* `open` open compound statements, the innermost of them still without a
\* body when `fresh`
Streams(n, open, fresh) ==
  IF open > n \/ (fresh /\ open + 1 > n) THEN {}
  ELSE IF n = 0 THEN {<<>>}
  ELSE {<<x>> \o s : x \in {Return, Pass},
                     s \in Streams(n - 1, open, FALSE)}
       \cup {<<x>> \o s : x \in Opens,
                          s \in Streams(n - 1, open + 1, TRUE)}
       \cup (IF open > 0 /\ ~fresh
               THEN {<<End>> \o s : s \in Streams(n - 1, open - 1, FALSE)}
               ELSE {})

\* the units ast.parse can return: up to MaxImports import statements, then
\* statements where every compound statement has a body, MaxTreeLen nodes
\* at most
Trees ==
  UNION {{imports \o s : s \in Streams(n - Len(imports), 0, FALSE)} :
           imports \in SeqsUpTo(ImportNodes, MaxImports),
           n \in 0..MaxTreeLen}

\* the unit paths handed to one run
ScriptLists ==
  { << <<"t", DOT, "py">> >>,
    << <<"src", SEP, "t", DOT, "py">>, <<"u", "t", DOT, "py">> >> }

\* { os.path.splitext(os.path.basename(script))[0] for script in scripts }
ModifiedScripts(ss) == {splitext(basename(ss[i]))[1] : i \in DOMAIN ss}

----------------------------------------------------------------------------
(* DebugTransformer: the visitors *)

\* s.replace(old, new) for single characters
Replace(s, old, new) == [i \in DOMAIN s |-> IF s[i] = old THEN new ELSE s[i]]

\* s.endswith(suffix)
EndsWith(s, suffix) ==
  /\ Len(suffix) <= Len(s)
  /\ SubSeq(s, Len(s) - Len(suffix) + 1, Len(s)) = suffix

RECURSIVE Join(_, _)
\* sep.join(parts)
Join(parts, sep) ==
  IF parts = <<>> THEN <<>>
  ELSE IF Len(parts) = 1 THEN parts[1]
  ELSE parts[1] \o <<sep>> \o Join(Tail(parts), sep)

\* relative_module_path.endswith(modified_script) for some modified_script
MatchesModifiedScript(name, ms) ==
  \E modified_script \in ms :
     EndsWith(Replace(name, DOT, SEP), modified_script)

\* parts = name.split("."); parts[-1] += "_debug"; ".".join(parts)
DebugName(name) ==
  LET parts == SplitOn(name, {DOT})
  IN  Join([parts EXCEPT ![Len(parts)] = @ \o <<"_debug">>], DOT)

RECURSIVE RewriteEveryAlias(_, _)
\* the loop without its return: every matching alias is renamed
RewriteEveryAlias(names, ms) ==
  IF names = <<>> THEN <<>>
  ELSE <<IF MatchesModifiedScript(Head(names), ms)
           THEN DebugName(Head(names)) ELSE Head(names)>>
         \o RewriteEveryAlias(Tail(names), ms)

RECURSIVE RewriteFirstAlias(_, _)
\* the loop over node.names: the first matching alias is renamed, and the
\* visitor returns
RewriteFirstAlias(names, ms) ==
  IF names = <<>> THEN <<>>
  ELSE IF MatchesModifiedScript(Head(names), ms)
    THEN <<DebugName(Head(names))>> \o Tail(names)
  ELSE <<Head(names)>> \o RewriteFirstAlias(Tail(names), ms)

visit_Import(node, ms) == [node EXCEPT !.names = RewriteFirstAlias(@, ms)]

visit_ImportFrom(node, ms) ==
  IF node.module # <<>> /\ MatchesModifiedScript(node.module, ms)
    THEN [node EXCEPT !.module = DebugName(@)]
    ELSE node

\* f"[{n}]"
IndexText(n) == "[" \o ToString(n) \o "]"

\* the text of a trace statement's message
Message(n, action, function, identifier) ==
  <<IndexText(n), SP, action, SP, QUOTE, function, QUOTE, SP, "in", SP, QUOTE>>
    \o identifier \o <<QUOTE>>

\* a statement that prints the message, or appends it and a newline to the
\* sink file
create_debug_statement(message, to_file) ==
  [kind |-> "Debug", to_file |-> to_file, message |-> message]

\* the Exiting statement placed after the return statement
ReturnThenExit(current, counter, identifier, to_file) ==
  IF current # None
    THEN <<Return,
           create_debug_statement(
             Message(counter[current] - 1, EXITING, current, identifier),
             to_file)>>
    ELSE <<Return>>

\* what visit_Return returns in place of the node
ExitThenReturn(current, counter, identifier, to_file) ==
  IF current # None
    THEN <<create_debug_statement(
             Message(counter[current] - 1, EXITING, current, identifier),
             to_file),
           Return>>
    ELSE <<Return>>

\* current_function after visit_FunctionDef, were it not restored
KeptFunction(original_function, current) == current

\* self.current_function = original_function
RestoredFunction(original_function, current) == original_function

\* function_call_counter = defaultdict(int)
NewCounter == [name \in FunctionNames |-> 0]

----------------------------------------------------------------------------
(* The trace log format *)

DEBUG_LOG_IDENTIFIER == <<"--- debug.log generated using dev_crawl.py ---">>

\* the text an instrumented unit writes for one entry or exit
TraceLine(index, action, function, unit) ==
  <<index, SP, action, SP, QUOTE, function, QUOTE, SP, "in", SP,
    QUOTE, unit, QUOTE, NL>>

\* the header line as initialize_debug_log writes it, and the same line
\* with blanks around the identifying string
HeaderLine == DEBUG_LOG_IDENTIFIER \o <<NL>>
PaddedHeaderLine == <<SP>> \o DEBUG_LOG_IDENTIFIER \o <<SP, NL>>

\* lines a log can hold after its first line: the trace lines of a function f,
\* the exit line of a function whose own name is a keyword, and text the traced program
\* printed (with and without a keyword in it)
LineSet ==
  { TraceLine("[1]", ENTERING, "f", "a.py"),
    TraceLine("[0]", EXITING, "f", "a.py"),
    TraceLine("[0]", EXITING, ENTERING, "a.py"),
    <<"hello", NL>>,
    <<ENTERING, SP, "room", NL>> }

\* a log file: nothing, or a first line of one of three kinds (header,
\* padded header, no header at all) followed by up to MaxLogLen lines
LogContents ==
  {Concat(first \o body) :
     first \in {<<>>, <<HeaderLine>>, <<PaddedHeaderLine>>},
     body \in SeqsUpTo(LineSet, MaxLogLen)}

LogPaths ==
  { <<"debug", DOT, "log">>,
    <<"trace", DOT, "md">>,
    <<"logs", DOT, "d", SEP, "debug">> }

----------------------------------------------------------------------------
(* is_valid_debug_log *)

\* a validation that only checks that the file can be read
is_valid_debug_log_unchecked(fs, file_path) ==
  IF ~Exists(fs, file_path)
    THEN "Error: Unable to read the file. Please check the path and try again."
    ELSE ""

\* "" when the first line, stripped, is the identifier; else an error text
is_valid_debug_log(fs, file_path) ==
  IF ~Exists(fs, file_path)
    THEN "Error: Unable to read the file. Please check the path and try again."
  ELSE IF Strip(ReadLine(Open(fs, file_path)), Whitespace) = DEBUG_LOG_IDENTIFIER
    THEN ""
  ELSE "Error: the file is not a valid debug log generated by this script"

\* the all(...) test of the two handlers
IsEmptyLog(ls) ==
  \A i \in DOMAIN ls :
     IsSpace(ls[i]) \/ Strip(ls[i], Whitespace) = DEBUG_LOG_IDENTIFIER

----------------------------------------------------------------------------
(* analyze_function_calls_in_log *)

KeyIndex(fc, key) == {i \in DOMAIN fc : fc[i].key = key}

\* function_calls[key] = 1: a key seen again is not counted again
IncrementOnce(fc, key) ==
  IF KeyIndex(fc, key) = {}
    THEN Append(fc, [key |-> key, count |-> 1])
    ELSE fc

\* function_calls[key] += 1 on an insertion-ordered defaultdict(int)
Increment(fc, key) ==
  IF KeyIndex(fc, key) = {}
    THEN Append(fc, [key |-> key, count |-> 1])
    ELSE LET i == CHOOSE j \in KeyIndex(fc, key) : TRUE
         IN  [fc EXCEPT ![i].count = @ + 1]

AnalyzeLine(fc, line) ==
  IF Contains(line, ENTERING)
    THEN LET parts == SplitOn(line, {QUOTE})
         IN  IF Len(parts) >= 4
               THEN Increment(fc, parts[4] \o <<" | ">> \o parts[2])
               ELSE fc
    ELSE fc

RECURSIVE AnalyzeLines(_, _)
AnalyzeLines(fc, ls) ==
  IF ls = <<>> THEN fc ELSE AnalyzeLines(AnalyzeLine(fc, Head(ls)), Tail(ls))

analyze_function_calls_in_log(fs, debug_file_path) ==
  AnalyzeLines(<<>>, ReadLines(Open(fs, debug_file_path)))

RECURSIVE SumCounts(_)
\* sum(function_calls.values())
SumCounts(fc) == IF fc = <<>> THEN 0 ELSE Head(fc).count + SumCounts(Tail(fc))

----------------------------------------------------------------------------
(* reformat_and_output_log: one pass of the loop body, and the ending *)

GROUP_START == <<NL, ">>> Starting group:", NL>>
GROUP_END == <<"<<< Ending group:", NL>>
COMPLETED == <<NL, ">>> Script execution completed <<<", NL>>

Bool2Int(b) == IF b THEN 1 ELSE 0

\* if Entering: += 1, elif Exiting: -= 1
PlainCountElif(count, line) ==
  IF Contains(line, ENTERING) THEN count + 1
  ELSE IF Contains(line, EXITING) THEN count - 1
  ELSE count

\* the counter after the line
PlainCount(count, line) ==
  count + Bool2Int(Contains(line, ENTERING)) - Bool2Int(Contains(line, EXITING))

\* the loop body with the indentation taken before the counter is updated
PlainEmitEarlyIndent(count, line) ==
  IF Contains(line, ENTERING) \/ Contains(line, EXITING)
    THEN LET new == PlainCount(count, line)
         IN  (IF Contains(line, ENTERING) /\ count = 0
                THEN <<GROUP_START>> ELSE <<>>)
             \o <<Repeat(<<INDENT>>, count) \o line>>
             \o (IF Contains(line, EXITING) /\ new = 0
                   THEN <<GROUP_END>> ELSE <<>>)
    ELSE << <<INDENT>> \o line >>

\* the strings the loop body appends to grouped_lines for the line
PlainEmit(count, line) ==
  IF Contains(line, ENTERING) \/ Contains(line, EXITING)
    THEN LET new == PlainCount(count, line)
         IN  (IF Contains(line, ENTERING) /\ count = 0
                THEN <<GROUP_START>> ELSE <<>>)
             \o <<Repeat(<<INDENT>>, new) \o line>>
             \o (IF Contains(line, EXITING) /\ new = 0
                   THEN <<GROUP_END>> ELSE <<>>)
    ELSE << <<INDENT>> \o line >>

----------------------------------------------------------------------------
(* output_function_call_summary *)

SummaryHead ==
  << <<NL, ">>> Function Call Summary <<<", NL>>,
     <<"------ Legend ------", NL>>,
     <<"'Script Name | Function Name: Called X times' indicates how many times a function was called.", NL>>,
     <<"The summary is listed in the order functions were first called.", NL>>,
     <<"---------------------", NL, NL>> >>

SummaryLines(fc) ==
  SummaryHead
    \o [i \in DOMAIN fc |->
          fc[i].key \o <<": Called ", ToString(fc[i].count), " times", NL>>]

----------------------------------------------------------------------------
(* reformat_and_output_log_md: prologue, one pass of the loop body, ending *)

\* lines[1:] if lines[0].strip() is the identifier, else lines
MdBody(ls) ==
  IF Strip(ls[1], Whitespace) = DEBUG_LOG_IDENTIFIER THEN Tail(ls) ELSE ls

MdHead(fc) ==
  << <<"# Debug Log <small>-> generated using dev_crawl.py</small>", NL, NL>>,
     <<"<details><summary>Click to expand the brief summary</summary>", NL, NL>>,
     <<"- Total function calls: ", ToString(SumCounts(fc)), NL>>,
     <<"- Unique functions entered: ", ToString(Len(fc)), NL>>,
     <<"</details>", NL, NL>>,
     <<"## Execution Flow", NL, NL>>,
     <<"<details>", NL>>,
     <<"<summary>Click to expand the execution flow details</summary>", NL, NL>> >>

RULE == <<NL, "---", NL>>

\* the backquote character
TICK == "<backquote>"

IsKeywordLine(line) == Contains(line, ENTERING) \/ Contains(line, EXITING)

\* line.split("'")[1] raises IndexError on a line without a quote
MdFails(line) == IsKeywordLine(line) /\ Len(SplitOn(line, {QUOTE})) < 2

MdCount(count, line) ==
  IF ~IsKeywordLine(line) THEN count
  ELSE IF Contains(line, EXITING) THEN count - 1
  ELSE count + 1

\* the entry indented by the counter as it is after the line
MdFormattedLate(count, line) ==
  LET action == IF Contains(line, ENTERING) THEN ENTERING ELSE EXITING
      function_name == SplitOn(line, {QUOTE})[2]
      words == SplitWs(line)
      script_name == Strip(words[Len(words)], {QUOTE})
  IN  Repeat(<<INDENT>>, MdCount(count, line))
        \o <<"- **", action, "** ", TICK>>
        \o function_name \o <<TICK, " in ", TICK>> \o script_name
        \o <<TICK, NL>>

MdFormatted(count, line) ==
  LET action == IF Contains(line, ENTERING) THEN ENTERING ELSE EXITING
      function_name == SplitOn(line, {QUOTE})[2]
      words == SplitWs(line)
      script_name == Strip(words[Len(words)], {QUOTE})
  IN  Repeat(<<INDENT>>, count) \o <<"- **", action, "** ", TICK>>
        \o function_name \o <<TICK, " in ", TICK>> \o script_name
        \o <<TICK, NL>>

MdEmit(count, line) ==
  IF IsKeywordLine(line)
    THEN <<MdFormatted(count, line)>>
           \o (IF Contains(line, EXITING) /\ count - 1 = 0
                 THEN <<RULE, RULE>> ELSE <<>>)
    ELSE <<line>>

MdTail ==
  << <<NL, "## Script Execution Completed", NL, NL, "</details>", NL, NL>>,
     <<"## Function Call Summary<small> -> in order of execution</small>", NL, NL>>,
     <<"| No. | Script | Function | Calls |", NL>>,
     <<"| --- | ------ | -------- | ----- |", NL>> >>

\* script, function = key.split(" | ") raises ValueError unless two parts
MdRowFails(fc) == \E i \in DOMAIN fc : Len(SplitOn(fc[i].key, {" | "})) # 2

MdRows(fc) ==
  [i \in DOMAIN fc |->
     LET parts == SplitOn(fc[i].key, {" | "})
     IN  <<"| ", ToString(i), "   | ", TICK>> \o parts[1]
           \o <<TICK, " | ", TICK>> \o parts[2]
           \o <<TICK, " | ", ToString(fc[i].count), " |", NL>>]

----------------------------------------------------------------------------
(* The parts of the state an operation does not use, as they are at start *)

LogIdle ==
  /\ op = "none"
  /\ result = "none"
  /\ log_file_path = <<>>
  /\ output_file_path = <<>>
  /\ lines = <<>>
  /\ pos = 0
  /\ enter_count = 0
  /\ grouped_lines = <<>>
  /\ function_calls = <<>>
  /\ written = <<>>
  /\ files_at_call = files

WalkIdle ==
  /\ tree = <<>>
  /\ script_identifier = <<>>
  /\ function_call_counter = NewCounter
  /\ current_function = None
  /\ visit_at = 1
  /\ visit_stack = <<>>
  /\ modified_tree = <<>>

DriverIdle ==
  /\ scripts = <<>>
  /\ script_index = 0
  /\ modified_paths = <<>>
  /\ transformers = {}
  /\ exit_code = None
  /\ non_interactive = FALSE
  /\ response = <<>>

----------------------------------------------------------------------------
(* The entry points of the trace-log consumers *)

\* the entry points that run the loop of transform_scripts
DriverOps == {"transform_scripts", "handle_script_modification"}

Ops ==
  {"handle_reformat_log", "handle_reformat_log_md", "reformat_and_output_log",
   "reformat_and_output_log_md", "analyze_function_calls_in_log"}

\* the log's own path as the output path
ReformattedLogPathInPlace(path) == generate_file_path(path)

\* handle_reformat_log's output path
ReformattedLogPath(path) ==
  generate_file_path(splitext(path)[1] \o <<"_reformatted", DOT, "log">>)

\* handle_reformat_log_md's output path
MarkdownFilePath(path) ==
  generate_file_path(splitext(path)[1] \o <<DOT, "md">>)

Finish(how) ==
  /\ pc' = "done"
  /\ result' = how
  /\ UNCHANGED <<files, output_file_path, lines, pos, enter_count,
                 grouped_lines, function_calls, written>>

\* reformat_and_output_log up to its loop: the log is read
BeginPlain(out) ==
  /\ pc' = "plain_scan"
  /\ output_file_path' = out
  /\ lines' = ReadLines(Open(files, log_file_path))
  /\ pos' = 0
  /\ enter_count' = 0
  /\ grouped_lines' = <<>>
  /\ UNCHANGED <<files, result, function_calls, written>>

\* reformat_and_output_log_md up to its loop: the log is read, its header
\* dropped, the aggregator run on the log, the document head built
BeginMd(out) ==
  LET ls == ReadLines(Open(files, log_file_path))
      fc == analyze_function_calls_in_log(files, log_file_path)
  IN  IF ls = <<>>
        THEN Finish("crashed")
        ELSE /\ pc' = "md_scan"
             /\ output_file_path' = out
             /\ lines' = MdBody(ls)
             /\ function_calls' = fc
             /\ pos' = 0
             /\ enter_count' = 0
             /\ grouped_lines' = MdHead(fc)
             /\ UNCHANGED <<files, result, written>>

\* the checks both handlers start with: "ok" for a valid log that is not
\* empty, else how the handler ends
HandlerCheck(fs, path) ==
  IF is_valid_debug_log(fs, path) # "" THEN "rejected"
  ELSE IF IsEmptyLog(ReadLines(Open(fs, path))) THEN "empty"
  ELSE "ok"

handle_reformat_log ==
  /\ pc = "idle"
  /\ op' = "handle_reformat_log"
  /\ LET check == HandlerCheck(files, log_file_path)
     IN  IF check # "ok"
           THEN Finish(check)
           ELSE BeginPlain(ReformattedLogPath(log_file_path))
  /\ UNCHANGED <<log_file_path, files_at_call>>
  /\ UNCHANGED <<modified_scripts, debug_to_file, walkVars, driverVars>>

handle_reformat_log_md ==
  /\ pc = "idle"
  /\ op' = "handle_reformat_log_md"
  /\ LET check == HandlerCheck(files, log_file_path)
     IN  IF check # "ok"
           THEN Finish(check)
           ELSE BeginMd(MarkdownFilePath(log_file_path))
  /\ UNCHANGED <<log_file_path, files_at_call>>
  /\ UNCHANGED <<modified_scripts, debug_to_file, walkVars, driverVars>>

\* the reconstructors and the aggregator called on their own, with the
\* output path their handler would pass; a missing log raises
reformat_and_output_log ==
  /\ pc = "idle"
  /\ op' = "reformat_and_output_log"
  /\ IF Exists(files, log_file_path)
       THEN BeginPlain(ReformattedLogPath(log_file_path))
       ELSE Finish("crashed")
  /\ UNCHANGED <<log_file_path, files_at_call>>
  /\ UNCHANGED <<modified_scripts, debug_to_file, walkVars, driverVars>>

reformat_and_output_log_md ==
  /\ pc = "idle"
  /\ op' = "reformat_and_output_log_md"
  /\ IF Exists(files, log_file_path)
       THEN BeginMd(MarkdownFilePath(log_file_path))
       ELSE Finish("crashed")
  /\ UNCHANGED <<log_file_path, files_at_call>>
  /\ UNCHANGED <<modified_scripts, debug_to_file, walkVars, driverVars>>

AnalyzeLog ==
  /\ pc = "idle"
  /\ op' = "analyze_function_calls_in_log"
  /\ pc' = "done"
  /\ IF Exists(files, log_file_path)
       THEN /\ function_calls' = analyze_function_calls_in_log(files, log_file_path)
            /\ result' = "ok"
       ELSE /\ function_calls' = function_calls
            /\ result' = "crashed"
  /\ UNCHANGED <<files, log_file_path, output_file_path, lines, pos,
                 enter_count, grouped_lines, written, files_at_call>>
  /\ UNCHANGED <<modified_scripts, debug_to_file, walkVars, driverVars>>

\* one iteration of reformat_and_output_log's loop
PlainScanLine ==
  /\ pc = "plain_scan"
  /\ pos < Len(lines)
  /\ LET line == lines[pos + 1]
     IN  /\ grouped_lines' = grouped_lines \o PlainEmit(enter_count, line)
         /\ enter_count' = PlainCount(enter_count, line)
  /\ pos' = pos + 1
  /\ UNCHANGED <<files, pc, op, result, log_file_path, output_file_path,
                 lines, function_calls, written, files_at_call>>
  /\ UNCHANGED <<modified_scripts, debug_to_file, walkVars, driverVars>>

\* after the loop: the completion marker, then the output file is written
PlainWrite ==
  /\ pc = "plain_scan"
  /\ pos = Len(lines)
  /\ grouped_lines' = Append(grouped_lines, COMPLETED)
  /\ files' = WriteFile(files, output_file_path, Concat(grouped_lines'))
  /\ written' = Append(written, generate_file_path(output_file_path))
  /\ IF op = "handle_reformat_log"
       THEN pc' = "plain_summary" /\ result' = result
       ELSE pc' = "done" /\ result' = "ok"
  /\ UNCHANGED <<op, log_file_path, output_file_path, lines, pos,
                 enter_count, function_calls, files_at_call>>
  /\ UNCHANGED <<modified_scripts, debug_to_file, walkVars, driverVars>>

\* handle_reformat_log after the reconstruction: the aggregator runs on
\* the reformatted file and the summary is appended to it
PlainSummary ==
  /\ pc = "plain_summary"
  /\ function_calls' = analyze_function_calls_in_log(files, output_file_path)
  /\ files' = WriteFile(files, output_file_path,
                Open(files, output_file_path)
                  \o Concat(SummaryLines(function_calls')))
  /\ written' = Append(written, generate_file_path(output_file_path))
  /\ pc' = "done"
  /\ result' = "ok"
  /\ UNCHANGED <<op, log_file_path, output_file_path, lines, pos,
                 enter_count, grouped_lines, files_at_call>>
  /\ UNCHANGED <<modified_scripts, debug_to_file, walkVars, driverVars>>

\* one iteration of reformat_and_output_log_md's loop
MdScanLine ==
  /\ pc = "md_scan"
  /\ pos < Len(lines)
  /\ LET line == lines[pos + 1]
     IN  IF MdFails(line)
           THEN Finish("crashed")
           ELSE /\ grouped_lines' = grouped_lines \o MdEmit(enter_count, line)
                /\ enter_count' = MdCount(enter_count, line)
                /\ pos' = pos + 1
                /\ UNCHANGED <<files, pc, result, output_file_path, lines,
                               function_calls, written>>
  /\ UNCHANGED <<op, log_file_path, files_at_call>>
  /\ UNCHANGED <<modified_scripts, debug_to_file, walkVars, driverVars>>

\* after the loop: the ending, the frequency table, then the write
MdWrite ==
  /\ pc = "md_scan"
  /\ pos = Len(lines)
  /\ IF MdRowFails(function_calls)
       THEN Finish("crashed")
       ELSE /\ grouped_lines' = grouped_lines \o MdTail \o MdRows(function_calls)
            /\ files' = WriteFile(files, output_file_path, Concat(grouped_lines'))
            /\ written' = Append(written, generate_file_path(output_file_path))
            /\ pc' = "done"
            /\ result' = "ok"
            /\ UNCHANGED <<output_file_path, lines, pos, enter_count,
                           function_calls>>
  /\ UNCHANGED <<op, log_file_path, files_at_call>>
  /\ UNCHANGED <<modified_scripts, debug_to_file, walkVars, driverVars>>

InitLog ==
  /\ log_file_path \in LogPaths
  /\ files \in {NoFiles}
               \cup {WriteFile(NoFiles, log_file_path, c) : c \in LogContents}
  /\ files_at_call = files
  /\ pc = "idle"
  /\ op = "none"
  /\ result = "none"
  /\ output_file_path = <<>>
  /\ lines = <<>>
  /\ pos = 0
  /\ enter_count = 0
  /\ grouped_lines = <<>>
  /\ function_calls = <<>>
  /\ written = <<>>
  /\ modified_scripts = {}
  /\ debug_to_file = FALSE
  /\ WalkIdle
  /\ DriverIdle

NextLog ==
  \/ handle_reformat_log
  \/ handle_reformat_log_md
  \/ reformat_and_output_log
  \/ reformat_and_output_log_md
  \/ AnalyzeLog
  \/ PlainScanLine
  \/ PlainWrite
  \/ PlainSummary
  \/ MdScanLine
  \/ MdWrite

SpecLog == InitLog /\ [][NextLog]_vars

----------------------------------------------------------------------------
(* DebugTransformer: the walk, one action per visit *)

Walking == pc = "walking" /\ visit_at <= Len(tree)

\* what no visit changes
WalkFrame ==
  UNCHANGED <<files, op, result, log_file_path, output_file_path, lines, pos,
              enter_count, grouped_lines, function_calls, written,
              files_at_call, tree, script_identifier, modified_scripts,
              debug_to_file, driverVars>>

\* visit_FunctionDef up to its generic_visit: the context is saved, the
\* counter incremented, the Entering statement put first in the body
visit_FunctionDef ==
  /\ Walking
  /\ tree[visit_at].kind = "FunctionDef"
  /\ LET node == tree[visit_at]
         counter == [function_call_counter EXCEPT ![node.name] = @ + 1]
     IN  /\ visit_stack' = <<[kind |-> "FunctionDef",
                              original_function |-> current_function]>>
                             \o visit_stack
         /\ current_function' = node.name
         /\ function_call_counter' = counter
         /\ modified_tree' =
              modified_tree
                \o <<node,
                     create_debug_statement(
                       Message(counter[node.name], ENTERING, node.name,
                               script_identifier),
                       debug_to_file)>>
  /\ visit_at' = visit_at + 1
  /\ pc' = pc
  /\ WalkFrame

\* generic_visit of a compound statement without a visitor of its own
generic_visit ==
  /\ Walking
  /\ tree[visit_at].kind \in {"Block", "Pass"}
  /\ visit_stack' = IF tree[visit_at].kind = "Block"
                      THEN <<[kind |-> "Block",
                              original_function |-> current_function]>>
                             \o visit_stack
                      ELSE visit_stack
  /\ modified_tree' = Append(modified_tree, tree[visit_at])
  /\ visit_at' = visit_at + 1
  /\ UNCHANGED <<pc, current_function, function_call_counter>>
  /\ WalkFrame

visit_Return ==
  /\ Walking
  /\ tree[visit_at].kind = "Return"
  /\ modified_tree' =
       modified_tree
         \o ExitThenReturn(current_function, function_call_counter,
                           script_identifier, debug_to_file)
  /\ visit_at' = visit_at + 1
  /\ UNCHANGED <<pc, current_function, function_call_counter, visit_stack>>
  /\ WalkFrame

VisitImport ==
  /\ Walking
  /\ tree[visit_at].kind = "Import"
  /\ modified_tree' =
       Append(modified_tree, visit_Import(tree[visit_at], modified_scripts))
  /\ visit_at' = visit_at + 1
  /\ UNCHANGED <<pc, current_function, function_call_counter, visit_stack>>
  /\ WalkFrame

VisitImportFrom ==
  /\ Walking
  /\ tree[visit_at].kind = "ImportFrom"
  /\ modified_tree' =
       Append(modified_tree, visit_ImportFrom(tree[visit_at], modified_scripts))
  /\ visit_at' = visit_at + 1
  /\ UNCHANGED <<pc, current_function, function_call_counter, visit_stack>>
  /\ WalkFrame

\* the body of a compound statement is done: generic_visit returns, and
\* visit_FunctionDef restores the context it saved
LeaveNode ==
  /\ Walking
  /\ tree[visit_at].kind = "End"
  /\ current_function' =
       IF Head(visit_stack).kind = "FunctionDef"
         THEN RestoredFunction(Head(visit_stack).original_function,
                               current_function)
         ELSE current_function
  /\ visit_stack' = Tail(visit_stack)
  /\ modified_tree' = Append(modified_tree, End)
  /\ visit_at' = visit_at + 1
  /\ UNCHANGED <<pc, function_call_counter>>
  /\ WalkFrame

\* transformer.visit(tree) has returned
WalkDone ==
  /\ pc = "walking"
  /\ visit_at = Len(tree) + 1
  /\ pc' = IF op \in DriverOps THEN "write" ELSE "done"
  /\ UNCHANGED <<current_function, function_call_counter, visit_stack,
                 modified_tree, visit_at>>
  /\ WalkFrame

\* the transformer as constructed by transform_script_ast for a parsed unit
InitRewrite ==
  /\ files = NoFiles
  /\ pc = "walking"
  /\ LogIdle
  /\ DriverIdle
  /\ \E ss \in ScriptLists :
        /\ modified_scripts = ModifiedScripts(ss)
        /\ script_identifier = basename(ss[1])
  /\ debug_to_file \in BOOLEAN
  /\ tree \in Trees
  /\ function_call_counter = NewCounter
  /\ current_function = None
  /\ visit_at = 1
  /\ visit_stack = <<>>
  /\ modified_tree = <<>>

NextRewrite ==
  \/ visit_FunctionDef
  \/ generic_visit
  \/ visit_Return
  \/ VisitImport
  \/ VisitImportFrom
  \/ LeaveNode
  \/ WalkDone

SpecRewrite == InitRewrite /\ [][NextRewrite]_vars

----------------------------------------------------------------------------
(* transform_script_ast, transform_scripts *)

RECURSIVE ClosesAll(_, _, _)
\* the statements s close `open` compound statements, each with a body
ClosesAll(s, open, fresh) ==
  IF s = <<>> THEN open = 0 /\ ~fresh
  ELSE IF Head(s).kind \in {"FunctionDef", "Block"}
    THEN ClosesAll(Tail(s), open + 1, TRUE)
  ELSE IF Head(s).kind = "End"
    THEN open > 0 /\ ~fresh /\ ClosesAll(Tail(s), open - 1, FALSE)
  ELSE ClosesAll(Tail(s), open, FALSE)

\* ast.parse(script_content) returns a tree; otherwise it raises SyntaxError
Parses(content) == ClosesAll(content, 0, FALSE)

\* the source text of one statement: a trace statement is a call of print,
\* or a with statement whose body is the call of write
StatementSource(node) ==
  IF node.kind # "Debug" THEN <<node>>
  ELSE IF node.to_file
    THEN <<[kind |-> "Block", text |-> node.message],
           [kind |-> "Pass", text |-> node.message],
           End>>
  ELSE <<[kind |-> "Pass", text |-> node.message]>>

\* astor.to_source(modified_tree)
to_source(t) == Concat([i \in DOMAIN t |-> StatementSource(t[i])])

\* os.path.splitext(script_path)[0] + "_debug.py"
NewScriptPath(script_path) ==
  splitext(script_path)[1] \o <<"_debug", DOT, "py">>

\* modified_paths[script_path] = new_script_path on an insertion-ordered dict
SetItem(d, key, value) ==
  IF \E i \in DOMAIN d : d[i].key = key
    THEN [i \in DOMAIN d |->
            IF d[i].key = key THEN [key |-> key, value |-> value] ELSE d[i]]
    ELSE Append(d, [key |-> key, value |-> value])

\* except SyntaxError: the unit is reported and the loop goes on
SkipSyntaxError(index) ==
  [pc |-> "units", script_index |-> index + 1, exit_code |-> None]

\* except SyntaxError: ... sys.exit(1)
OnSyntaxError(index) ==
  [pc |-> "done", script_index |-> index, exit_code |-> 1]

\* the unit paths and the unit files of a run
ScriptPaths ==
  { <<"t", DOT, "py">>,
    <<"u", "t", DOT, "py">>,
    <<"t", "_debug", DOT, "py">> }

UnitContents ==
  { <<Import(<<ModuleUT, ModuleT>>), FunctionDef("f"), Pass, Return, End>>,
    <<ImportFrom(ModuleT), Block, Pass, End>>,
    <<FunctionDef("f")>> }

DriverFrame ==
  UNCHANGED <<op, log_file_path, output_file_path, lines, pos, enter_count,
              grouped_lines, function_calls, files_at_call, scripts,
              modified_scripts, debug_to_file, non_interactive, response>>

\* one pass of the loop up to the walk: the unit is read and parsed and its
\* transformer constructed; a unit that does not parse ends the process
\* with status 1, a unit that cannot be opened ends it with a traceback
ReadUnit ==
  /\ pc = "units"
  /\ script_index < Len(scripts)
  /\ LET script_path == scripts[script_index + 1]
     IN  IF ~Exists(files, script_path)
           THEN /\ pc' = "done"
                /\ result' = "crashed"
                /\ exit_code' = 1
                /\ UNCHANGED <<script_index, walkVars>>
         ELSE IF ~Parses(Open(files, script_path))
           THEN /\ pc' = OnSyntaxError(script_index).pc
                /\ script_index' = OnSyntaxError(script_index).script_index
                /\ exit_code' = OnSyntaxError(script_index).exit_code
                /\ result' = "syntax_error"
                /\ UNCHANGED walkVars
         ELSE /\ pc' = "walking"
              /\ tree' = Open(files, script_path)
              /\ script_identifier' = basename(script_path)
              /\ function_call_counter' = NewCounter
              /\ current_function' = None
              /\ visit_at' = 1
              /\ visit_stack' = <<>>
              /\ modified_tree' = <<>>
              /\ UNCHANGED <<result, exit_code, script_index>>
  /\ UNCHANGED <<files, written, modified_paths, transformers>>
  /\ DriverFrame

\* the rest of the pass: the rewritten unit is written next to the unit
WriteUnit ==
  /\ pc = "write"
  /\ LET script_path == scripts[script_index + 1]
         new_script_path == NewScriptPath(script_path)
     IN  /\ transformers' = transformers \cup {script_identifier}
         /\ files' = WriteFile(files, new_script_path, to_source(modified_tree))
         /\ written' = Append(written, generate_file_path(new_script_path))
         /\ modified_paths' = SetItem(modified_paths, script_path, new_script_path)
  /\ script_index' = script_index + 1
  /\ pc' = "units"
  /\ UNCHANGED <<result, exit_code, walkVars>>
  /\ DriverFrame

\* after the last unit: return modified_paths, transformers
ReturnPaths ==
  /\ pc = "units"
  /\ script_index = Len(scripts)
  /\ pc' = "done"
  /\ result' = "ok"
  /\ UNCHANGED <<files, written, modified_paths, transformers, script_index,
                 exit_code, walkVars>>
  /\ DriverFrame

\* transform_scripts has been called and has computed the instrumented set
InitDriver ==
  /\ scripts \in SeqsUpTo(ScriptPaths, MaxScripts) \ {<<>>}
  /\ \E present \in SUBSET ScriptPaths :
        files \in [{generate_file_path(p) : p \in present} -> UnitContents]
  /\ debug_to_file \in BOOLEAN
  /\ modified_scripts = ModifiedScripts(scripts)
  /\ pc = "units"
  /\ op = "transform_scripts"
  /\ result = "none"
  /\ log_file_path = <<>>
  /\ output_file_path = <<>>
  /\ lines = <<>>
  /\ pos = 0
  /\ enter_count = 0
  /\ grouped_lines = <<>>
  /\ function_calls = <<>>
  /\ written = <<>>
  /\ files_at_call = files
  /\ WalkIdle
  /\ script_index = 0
  /\ modified_paths = <<>>
  /\ transformers = {}
  /\ exit_code = None
  /\ non_interactive = FALSE
  /\ response = <<>>

NextDriver ==
  \/ ReadUnit
  \/ visit_FunctionDef
  \/ generic_visit
  \/ visit_Return
  \/ VisitImport
  \/ VisitImportFrom
  \/ LeaveNode
  \/ WalkDone
  \/ WriteUnit
  \/ ReturnPaths

SpecDriver == InitDriver /\ [][NextDriver]_vars

----------------------------------------------------------------------------
(* handle_script_modification, handle_debug_to_file, confirm_overwrite,     *)
(* initialize_debug_log                                                     *)

\* os.path.dirname: the path up to its last separator, without the
\* separators that end it unless it is made of separators only
dirname(p) ==
  LET head == SubSeq(p, 1, RFind(p, SEP))
  IN  IF head # <<>> /\ \E i \in DOMAIN head : head[i] # SEP
        THEN RStrip(head, {SEP})
        ELSE head

\* os.path.isdir: the root, the working directory and every directory that
\* holds a file are directories
validate_directory(fs, directory_path) ==
  \/ directory_path \in {<<SEP>>, Cwd}
  \/ /\ directory_path # <<>>
     /\ \E a \in DOMAIN fs :
          /\ Len(a) > Len(directory_path) + 1
          /\ SubSeq(a, 1, Len(directory_path)) = directory_path
          /\ a[Len(directory_path) + 1] = SEP

\* str.lower() on one token and on a text
LowerToken(c) ==
  CASE c = "Y" -> "y"
    [] c = "Yes" -> "yes"
    [] c = "N" -> "n"
    [] OTHER -> c

Lower(s) == [i \in DOMAIN s |-> LowerToken(s[i])]

\* what the user can type at the prompt before the Enter key
Responses == { <<>>, <<"n">>, <<"Y">>, <<SP, "Yes">> }

\* input(...) is called: the file exists and the run is interactive
Prompted(fs, file_path, non_int) == Exists(fs, file_path) /\ ~non_int

\* True when there is nothing to ask, else whether the answer is y or yes
confirm_overwrite(fs, file_path, non_int, resp) ==
  IF Prompted(fs, file_path, non_int)
    THEN Lower(Strip(resp, Whitespace)) \in { <<"y">>, <<"yes">> }
    ELSE TRUE

\* whether initialize_debug_log opens the file for writing
InitializesLog(fs, path) ==
  LET directory_path == dirname(generate_file_path(path))
  IN  validate_directory(fs, directory_path) \/ directory_path = <<>>

\* the file system after initialize_debug_log: the header line replaces the
\* log, or an error is printed and nothing is written
initialize_debug_log(fs, path) ==
  IF InitializesLog(fs, path)
    THEN WriteFile(fs, path, HeaderLine)
    ELSE fs

\* what handle_debug_to_file returns, the file system it leaves and whether
\* it wrote the log
handle_debug_to_file(fs, to_file, path, non_int, resp) ==
  LET absolute_output_file_path == generate_file_path(path)
  IN  IF ~to_file
        THEN [returns |-> TRUE, files |-> fs, wrote |-> FALSE]
      ELSE IF ~confirm_overwrite(fs, absolute_output_file_path, non_int, resp)
        THEN [returns |-> FALSE, files |-> fs, wrote |-> FALSE]
      ELSE [returns |-> TRUE,
            files |-> initialize_debug_log(fs, absolute_output_file_path),
            wrote |-> InitializesLog(fs, absolute_output_file_path)]

\* the units are rewritten whatever handle_debug_to_file returned
GoOnRegardless(initialized) == "units"

\* if not handle_debug_to_file(...): return
AfterDebugToFile(initialized) == IF initialized THEN "units" ELSE "done"

\* handle_script_modification up to the loop of transform_scripts: in sink
\* mode the log is initialised first, and the handler returns if it was not;
\* transform_scripts then computes the instrumented set
handle_script_modification ==
  /\ pc = "start"
  /\ \E r \in Responses :
       LET asked == debug_to_file
                      /\ Prompted(files, generate_file_path(output_file_path),
                                  non_interactive)
           sink == IF debug_to_file
                     THEN handle_debug_to_file(files, debug_to_file,
                            output_file_path, non_interactive, r)
                     ELSE [returns |-> TRUE, files |-> files, wrote |-> FALSE]
       IN  /\ response' = IF asked THEN <<r>> ELSE <<>>
           /\ files' = sink.files
           /\ written' = IF sink.wrote
                           THEN Append(written,
                                       generate_file_path(output_file_path))
                           ELSE written
           /\ pc' = AfterDebugToFile(sink.returns)
           /\ result' = IF sink.returns THEN result ELSE "cancelled"
           /\ modified_scripts' = IF AfterDebugToFile(sink.returns) = "units"
                                    THEN ModifiedScripts(scripts)
                                    ELSE modified_scripts
  /\ UNCHANGED <<op, log_file_path, output_file_path, lines, pos, enter_count,
                 grouped_lines, function_calls, files_at_call, debug_to_file,
                 walkVars, scripts, script_index, modified_paths,
                 transformers, exit_code, non_interactive>>

\* the paths --output-file can name, and a log left by an earlier run
SinkPaths ==
  { <<"debug", DOT, "log">>,
    <<"logs", SEP, "debug", DOT, "log">> }

OldLog == HeaderLine \o TraceLine("[1]", ENTERING, "f", "t.py")

\* the unit paths of a run, each named once
InstrumentRuns ==
  { ss \in SeqsUpTo(ScriptPaths, MaxScripts) \ {<<>>} :
      \A i, j \in DOMAIN ss : ss[i] = ss[j] => i = j }

\* main has parsed the arguments and calls handle_script_modification
InitInstrument ==
  /\ scripts \in InstrumentRuns
  /\ output_file_path \in SinkPaths
  /\ debug_to_file \in BOOLEAN
  /\ non_interactive \in BOOLEAN
  /\ \E present \in SUBSET ScriptPaths, logs \in SUBSET {output_file_path} :
       \E units \in [{generate_file_path(p) : p \in present} -> UnitContents] :
         files = [a \in DOMAIN units \cup {generate_file_path(p) : p \in logs}
                    |-> IF a \in DOMAIN units THEN units[a] ELSE OldLog]
  /\ modified_scripts = {}
  /\ pc = "start"
  /\ op = "handle_script_modification"
  /\ result = "none"
  /\ log_file_path = <<>>
  /\ lines = <<>>
  /\ pos = 0
  /\ enter_count = 0
  /\ grouped_lines = <<>>
  /\ function_calls = <<>>
  /\ written = <<>>
  /\ files_at_call = files
  /\ WalkIdle
  /\ script_index = 0
  /\ modified_paths = <<>>
  /\ transformers = {}
  /\ exit_code = None
  /\ response = <<>>

NextInstrument ==
  \/ handle_script_modification
  \/ ReadUnit
  \/ visit_FunctionDef
  \/ generic_visit
  \/ visit_Return
  \/ VisitImport
  \/ VisitImportFrom
  \/ LeaveNode
  \/ WalkDone
  \/ WriteUnit
  \/ ReturnPaths

SpecInstrument == InitInstrument /\ [][NextInstrument]_vars

----------------------------------------------------------------------------
(* What the claims speak of, read off the log that was handed in *)

SourcePath == generate_file_path(log_file_path)
SourceExists == SourcePath \in DOMAIN files_at_call
SourceContent == files_at_call[SourcePath]
SourceLines == ReadLines(SourceContent)

Handlers == {"handle_reformat_log", "handle_reformat_log_md"}
PlainOps == {"handle_reformat_log", "reformat_and_output_log"}
MdOps == {"handle_reformat_log_md", "reformat_and_output_log_md"}

NothingWritten == written = <<>> /\ files = files_at_call

SourceUntouched ==
  SourceExists => /\ SourcePath \in DOMAIN files
                  /\ files[SourcePath] = SourceContent

QuoteCount(line) == Cardinality({j \in DOMAIN line : line[j] = QUOTE})

\* lines tagged Entering / Exiting among the first k lines of ls
EnteringUpTo(ls, k) == {i \in 1..k : Contains(ls[i], ENTERING)}
ExitingUpTo(ls, k) == {i \in 1..k : Contains(ls[i], EXITING)}

\* live nesting after the first k lines: entries minus exits
Nesting(ls, k) ==
  Cardinality(EnteringUpTo(ls, k)) - Cardinality(ExitingUpTo(ls, k))

----------------------------------------------------------------------------
(* C1 *)

----------------------------------------------------------------------------
(* C4 *)

\* the aggregator has returned its mapping for the log that was handed in
AggregatorReturned ==
  \/ op = "analyze_function_calls_in_log" /\ result = "ok"
  \/ op \in MdOps /\ pc = "md_scan"

\* C4, as stated: the counts of the mapping the aggregator returns add up
\* to the number of lines of the log tagged Entering.
C4_TotalIsEnteringLines ==
  AggregatorReturned =>
    SumCounts(function_calls)
      = Cardinality(EnteringUpTo(SourceLines, Len(SourceLines)))

\* C4, amended: the counts add up to the number of lines that contain
\* Entering and at least three quote characters (four quote-delimited
\* segments); an Entering line with fewer quotes is skipped.
C4_TotalIsQuotedEnteringLines ==
  AggregatorReturned =>
    SumCounts(function_calls)
      = Cardinality({i \in EnteringUpTo(SourceLines, Len(SourceLines)) :
                       QuoteCount(SourceLines[i]) >= 3})

\* the aggregator has counted the same key twice and skipped a line that
\* is tagged Entering
C4_Witness ==
  /\ op = "analyze_function_calls_in_log"
  /\ result = "ok"
  /\ \E i \in DOMAIN function_calls : function_calls[i].count >= 2
  /\ \E i \in DOMAIN SourceLines :
        Contains(SourceLines[i], ENTERING) /\ QuoteCount(SourceLines[i]) < 3

----------------------------------------------------------------------------
(* C5 *)

\* equal Entering/Exiting counts, and no prefix with more exits than entries
WellFormedLog(ls) ==
  /\ Nesting(ls, Len(ls)) = 0
  /\ \A k \in 0..Len(ls) : Nesting(ls, k) >= 0

\* the maximum live nesting of the log
MaxNesting(ls) ==
  CHOOSE m \in {Nesting(ls, k) : k \in 0..Len(ls)} :
    \A k \in 0..Len(ls) : Nesting(ls, k) <= m

\* reformat_and_output_log has read its log and is scanning or has scanned
PlainScanning ==
  /\ op \in PlainOps
  /\ pc \in {"plain_scan", "plain_summary", "done"}
  /\ result \notin {"rejected", "empty", "crashed"}

----------------------------------------------------------------------------
(* C10 *)

\* four spaces per unit of depth; none for a depth that is not positive
IndentOf(d) == Repeat(<<INDENT>>, d)

\* what the claim makes of one line read at depth d, a line that carries
\* both keywords taking the start marker of an entry, the end marker of an
\* exit and the depth it found
ExpectedChunk(d, line) ==
  LET e == Contains(line, ENTERING)
      x == Contains(line, EXITING)
      new == IF e /\ x THEN d ELSE IF e THEN d + 1 ELSE IF x THEN d - 1 ELSE d
  IN  IF ~e /\ ~x
        THEN << <<INDENT>> \o line >>
        ELSE (IF e /\ d = 0 THEN <<GROUP_START>> ELSE <<>>)
             \o <<IndentOf(new) \o line>>
             \o (IF x /\ new = 0 THEN <<GROUP_END>> ELSE <<>>)

RECURSIVE ExpectedOutput(_, _)
\* the output for the first k lines of ls
ExpectedOutput(ls, k) ==
  IF k = 0 THEN <<>>
  ELSE ExpectedOutput(ls, k - 1) \o ExpectedChunk(Nesting(ls, k - 1), ls[k])

\* reformat_and_output_log was called on a log that exists
PlainCalled ==
  /\ op \in PlainOps
  /\ SourceExists
  /\ result \notin {"rejected", "empty"}

\* C10, as stated: each Entering line gets a start marker exactly when the
\* depth was 0 and is indented by the incremented depth, each Exiting line
\* is indented by the decremented depth and followed by an end marker
\* exactly when that depth is 0, every other line gets the flat indent, and
\* the completion marker ends the output.
C10_LineRulesAsStated ==
  (PlainCalled /\ pc = "plain_scan" /\ pos >= 1) =>
     LET line == lines[pos]
         d == Nesting(lines, pos - 1)
         n == Len(grouped_lines)
     IN  /\ Contains(line, ENTERING) =>
              /\ enter_count = d + 1
              /\ grouped_lines[n] = IndentOf(d + 1) \o line
              /\ (d = 0) <=> (n >= 2 /\ grouped_lines[n - 1] = GROUP_START)
         /\ Contains(line, EXITING) =>
              /\ enter_count = d - 1
              /\ IF d - 1 = 0
                   THEN /\ grouped_lines[n] = GROUP_END
                        /\ grouped_lines[n - 1] = IndentOf(0) \o line
                   ELSE grouped_lines[n] = IndentOf(d - 1) \o line
         /\ ~IsKeywordLine(line) => grouped_lines[n] = <<INDENT>> \o line

\* C10, amended: for any log reformat_and_output_log runs to completion and
\* emits, for each line with Entering only, a start marker exactly when the
\* depth was 0 and the line at the incremented depth; for each line with
\* Exiting only, the line at the decremented depth and an end marker exactly
\* when that depth is 0; for a line with both keywords, the same two markers
\* around the line at the unchanged depth; every other line with the flat
\* indent; and one completion marker, last.  A depth that is not positive
\* indents by nothing.
C10_OutputOfAnyLog ==
  PlainCalled =>
     /\ result # "crashed"
     /\ pc = "plain_scan" =>
          /\ grouped_lines = ExpectedOutput(lines, pos)
          /\ pos \in 0..Len(lines)
     /\ pc \in {"plain_summary", "done"} =>
          /\ pos = Len(lines)
          /\ lines = SourceLines
          /\ grouped_lines = Append(ExpectedOutput(lines, pos), COMPLETED)
          /\ LET out == Open(files, output_file_path)
             IN  SubSeq(out, 1, Len(Concat(grouped_lines))) = Concat(grouped_lines)
          /\ (op = "reformat_and_output_log" =>
                Open(files, output_file_path) = Concat(grouped_lines))

\* the scan of a log with more exits than entries, one of its lines
\* carrying both keywords, has ended with a negative depth
C10_Witness ==
  /\ PlainCalled
  /\ pc = "done"
  /\ result = "ok"
  /\ enter_count < 0
  /\ \E i \in DOMAIN lines :
        Contains(lines[i], ENTERING) /\ Contains(lines[i], EXITING)

----------------------------------------------------------------------------
(* C6, C7 *)

\* C6, as stated: every file handle_reformat_log writes is the log it read.
C6_WritesOverSource ==
  op = "handle_reformat_log" =>
     \A i \in DOMAIN written : written[i] = SourcePath

\* C6, amended: handle_reformat_log never writes the log it read; what it
\* writes is a separate file, the log's path with its extension replaced by
\* _reformatted.log, and the log's content stays as it was.
C6_WritesSeparateFile ==
  op = "handle_reformat_log" =>
     /\ \A i \in DOMAIN written :
           /\ written[i] # SourcePath
           /\ written[i] = generate_file_path(output_file_path)
           /\ SubSeq(written[i], Len(written[i]) - 2, Len(written[i]))
                = <<"_reformatted", DOT, "log">>
     /\ SourceUntouched

\* handle_reformat_log has written the regrouped log and its summary
C6_Witness ==
  /\ op = "handle_reformat_log"
  /\ pc = "done"
  /\ result = "ok"
  /\ Len(written) = 2

\* C7: handle_reformat_log_md never writes the log it read, and the log's
\* content is unchanged afterwards.
C7_NeverOverwritesSource ==
  op = "handle_reformat_log_md" =>
     /\ \A i \in DOMAIN written : written[i] # SourcePath
     /\ SourceUntouched

----------------------------------------------------------------------------
(* C9 *)

RECURSIVE LeadingIndents(_)
LeadingIndents(s) ==
  IF s # <<>> /\ Head(s) = INDENT THEN 1 + LeadingIndents(Tail(s)) ELSE 0

\* what one string of the execution flow shows: an entry at a nesting
\* level, a horizontal rule, or a line passed through
Mark(g) ==
  LET t == LStrip(g, {INDENT})
  IN  IF t # <<>> /\ Head(t) = "- **"
        THEN [kind |-> "entry", level |-> LeadingIndents(g)]
      ELSE IF g = RULE THEN [kind |-> "rule", level |-> 0]
      ELSE [kind |-> "raw", level |-> 0]

\* the execution flow written so far, after the document head
Flow == SubSeq(grouped_lines, Len(MdHead(function_calls)) + 1, Len(grouped_lines))

ObservedMarks == [i \in DOMAIN Flow |-> Mark(Flow[i])]

\* the markup counter after the first k lines: a line with Exiting closes,
\* any other keyword line opens
MdDepth(ls, k) ==
  Cardinality({i \in 1..k : IsKeywordLine(ls[i]) /\ ~Contains(ls[i], EXITING)})
    - Cardinality(ExitingUpTo(ls, k))

BothUpTo(ls, k) == EnteringUpTo(ls, k) \cap ExitingUpTo(ls, k)

\* the level reformat_and_output_log indents line i at
PlainLevel(ls, i) == Max(0, Nesting(ls, i))

\* C9 as stated: the plain level.  C9 amended: the depth before the update,
\* which is one less than the plain level for an entry and one more for an
\* exit as long as no line so far carries both keywords.
StatedLevel(ls, i) == PlainLevel(ls, i)
AmendedLevel(ls, i) ==
  IF BothUpTo(ls, i) # {} THEN Max(0, MdDepth(ls, i - 1))
  ELSE IF Contains(ls[i], ENTERING) THEN Max(0, Nesting(ls, i) - 1)
  ELSE Max(0, Nesting(ls, i) + 1)

StatedClosed(ls, k) == Contains(ls[k], EXITING) /\ Nesting(ls, k) = 0
AmendedClosed(ls, k) == Contains(ls[k], EXITING) /\ MdDepth(ls, k) = 0

\* the marks of one line: an entry at a level, followed by a pair of rules
\* when the line closes a group; a line without a keyword passes through
LineMarks(line, level, closed) ==
  IF IsKeywordLine(line)
    THEN <<[kind |-> "entry", level |-> level]>>
         \o (IF closed
               THEN <<[kind |-> "rule", level |-> 0], [kind |-> "rule", level |-> 0]>>
               ELSE <<>>)
    ELSE <<[kind |-> "raw", level |-> 0]>>

\* the marks of the first k lines, as stated and as amended
StatedMarks(ls, k) ==
  Concat([i \in 1..k |->
            LineMarks(ls[i], StatedLevel(ls, i), StatedClosed(ls, i))])
AmendedMarks(ls, k) ==
  Concat([i \in 1..k |->
            LineMarks(ls[i], AmendedLevel(ls, i), AmendedClosed(ls, i))])

MdScanning == op \in MdOps /\ pc = "md_scan"

\* C9, as stated: reformat_and_output_log_md renders every Entering or
\* Exiting line at the level reformat_and_output_log indents it at, and
\* appends two rules each time the depth returns to 0.
C9_SameLevelAsPlain ==
  MdScanning =>
    ObservedMarks = StatedMarks(lines, pos)

\* C9, amended: reformat_and_output_log_md renders every Entering or Exiting
\* line at the depth before its update: while no line carries both keywords
\* that is one level less than reformat_and_output_log's for an Entering
\* line and one level more for an Exiting line.  Two rules are appended each
\* time an Exiting line returns the markup counter to 0.
C9_LevelBeforeUpdate ==
  MdScanning =>
    /\ enter_count = MdDepth(lines, pos)
    /\ ObservedMarks = AmendedMarks(lines, pos)

\* the markup scan of a log with two entries live at once has returned to
\* depth 0 and appended the two rules
C9_Witness ==
  /\ MdScanning
  /\ pos = Len(lines)
  /\ pos >= 4
  /\ MaxNesting(lines) = 2
  /\ BothUpTo(lines, pos) = {}
  /\ enter_count = 0
  /\ grouped_lines[Len(grouped_lines)] = RULE

----------------------------------------------------------------------------
(* What the claims on the rewriter speak of, read off the two trees *)

\* the rewritten unit without the trace statements
Original(t) == SelectSeq(t, LAMBDA node : node.kind # "Debug")

\* the part of the unit the walk has visited
Visited == SubSeq(tree, 1, visit_at - 1)

IsTrace(node, action) ==
  node.kind = "Debug" /\ node.message[3] = action

\* the function a trace statement names
TraceFunction(node) == node.message[6]

RECURSIVE OpenStatements(_, _)
\* the compound statements open after the first k statements of t,
\* innermost first
OpenStatements(t, k) ==
  IF k = 0 THEN <<>>
  ELSE LET before == OpenStatements(t, k - 1)
       IN  IF t[k].kind \in {"FunctionDef", "Block"} THEN <<t[k]>> \o before
           ELSE IF t[k].kind = "End" THEN Tail(before)
           ELSE before

\* the name of the innermost function definition that encloses statement k
\* of t, or None
InnermostFunction(t, k) ==
  LET defs == SelectSeq(OpenStatements(t, k - 1),
                        LAMBDA node : node.kind = "FunctionDef")
  IN  IF defs = <<>> THEN None ELSE Head(defs).name

\* the last segment of a dotted module name is a unit of the set
IsUnit(name, ms) ==
  LET parts == SplitOn(name, {DOT}) IN parts[Len(parts)] \in ms

\* the module name that refers to the instrumented sibling
Sibling(name) == name \o <<"_debug">>

----------------------------------------------------------------------------
(* C2 *)

\* C2: in a rewrite pass with instrumented set S every imported module name
\* that is not a unit of S is left as it is, in a plain import and in an
\* import-from alike, and the first listed name that is a unit of S is
\* rewritten to that unit's instrumented sibling (the name with _debug
\* appended to its final segment).
C2_OnlyUnitsAreRewritten ==
  pc \in {"walking", "done"} =>
    LET out == Original(modified_tree)
    IN  \A k \in DOMAIN out :
          /\ tree[k].kind = "Import" =>
               \A i \in DOMAIN tree[k].names :
                  LET name == tree[k].names[i]
                  IN  /\ ~IsUnit(name, modified_scripts) =>
                           out[k].names[i] = name
                      /\ (/\ IsUnit(name, modified_scripts)
                          /\ \A h \in 1..(i - 1) :
                                ~IsUnit(tree[k].names[h], modified_scripts))
                           => out[k].names[i] = Sibling(name)
          /\ tree[k].kind = "ImportFrom" =>
               LET name == tree[k].module
               IN  IF name # <<>> /\ IsUnit(name, modified_scripts)
                     THEN out[k].module = Sibling(name)
                     ELSE out[k].module = name

----------------------------------------------------------------------------
(* C3 *)

----------------------------------------------------------------------------
(* C8 *)

\* C8: transform_scripts handles the units in input order; when unit k does
\* not parse, the run has ended with exit status 1, the files written are
\* the rewritten files of units 1..k-1, in that order, and they are on disk;
\* nothing was written for unit k or a later unit, and no other file was
\* touched.
C8_HaltsAtFirstBadUnit ==
  op = "transform_scripts" =>
    /\ written = [i \in 1..script_index |->
                    generate_file_path(NewScriptPath(scripts[i]))]
    /\ result = "syntax_error" =>
         /\ pc = "done"
         /\ exit_code \in Nat \ {0}
         /\ script_index < Len(scripts)
         /\ ~Parses(Open(files, scripts[script_index + 1]))
         /\ \A i \in DOMAIN written : written[i] \in DOMAIN files
         /\ \A p \in DOMAIN files :
               (\A i \in DOMAIN written : written[i] # p) =>
                  p \in DOMAIN files_at_call /\ files[p] = files_at_call[p]
         /\ DOMAIN files_at_call \subseteq DOMAIN files

\* the third unit of a run did not parse after two units were written
C8_Witness ==
  /\ op = "transform_scripts"
  /\ result = "syntax_error"
  /\ script_index = 2
  /\ Len(written) = 2
  /\ Len(scripts) = 3

----------------------------------------------------------------------------
(* C11: a declined overwrite of the sink log *)

\* answers that decline the prompt "Overwrite? (y/N)"
DecliningResponses == { <<>>, <<"n">> }

\* the run is in sink mode and interactive, the sink log existed when it
\* began, the user was asked and declined
Declined ==
  /\ op = "handle_script_modification"
  /\ debug_to_file
  /\ ~non_interactive
  /\ Exists(files_at_call, output_file_path)
  /\ response # <<>>
  /\ response[1] \in DecliningResponses

\* every unit of the run could be read and parsed when the run began, and
\* none of them is the instrumented file of another
UnitsRewritable ==
  \A i \in DOMAIN scripts :
    /\ Exists(files_at_call, scripts[i])
    /\ Parses(Open(files_at_call, scripts[i]))
    /\ \A j \in DOMAIN scripts : scripts[j] # NewScriptPath(scripts[i])

\* the instrumented file of the unit was written by the run
InstrumentedWritten(script_path) ==
  \E k \in DOMAIN written :
    written[k] = generate_file_path(NewScriptPath(script_path))

\* C11 as stated: when the user declines the interactive overwrite
\* confirmation for an existing sink log in a sink-mode instrument run, the
\* log is not initialised but the rest of the run goes on: by the end of the
\* run every unit has been rewritten and its instrumented file written.
C11_DeclineAbortsOnlyLogInit ==
  Declined =>
    /\ Open(files, output_file_path) = Open(files_at_call, output_file_path)
    /\ (pc = "done" /\ UnitsRewritable)
         => \A i \in DOMAIN scripts : InstrumentedWritten(scripts[i])

\* C11 as the code has it: when the user declines the interactive overwrite
\* confirmation for an existing sink log in a sink-mode instrument run, the
\* whole run is cancelled: the handler returns at once, the log and every
\* other file are as they were, no unit is rewritten, no instrumented file is
\* written, and the process does not exit with an error status.
C11_DeclineCancelsRun ==
  Declined =>
    /\ pc = "done"
    /\ result = "cancelled"
    /\ files = files_at_call
    /\ written = <<>>
    /\ modified_paths = <<>>
    /\ transformers = {}
    /\ exit_code = None

\* a declined run over two units that could both have been rewritten
C11_Witness ==
  /\ Declined
  /\ pc = "done"
  /\ Len(scripts) >= 2
  /\ UnitsRewritable

----------------------------------------------------------------------------
(* C12 *)

\* the name hits: with its dots read as path separators it ends with the
\* base name of a unit of the set
Hits(name, ms) ==
  \E m \in ms : \E k \in 0..Len(name) :
     [i \in 1..(Len(name) - k) |->
        IF name[k + i] = DOT THEN SEP ELSE name[k + i]] = m

\* after is before with _debug appended once to its final segment
SuffixedOnce(before, after) ==
  LET b == SplitOn(before, {DOT})
      a == SplitOn(after, {DOT})
  IN  /\ Len(a) = Len(b)
      /\ \A i \in 1..(Len(b) - 1) : a[i] = b[i]
      /\ a[Len(a)] = b[Len(b)] \o <<"_debug">>

\* the indexes at which two name lists of one length differ
Changed(before, after) == {i \in DOMAIN before : after[i] # before[i]}

\* C12: in the rewritten unit every import node keeps all its names but at
\* most one; the changed name is the first of the node that hits, it has
\* _debug appended once to its final segment, and the names before and
\* after it are as they were, units of the set or not.  An import-from
\* node has its module changed in that way when it hits, and not otherwise.
C12_FirstHitOnly ==
  pc \in {"walking", "done"} =>
    LET out == Original(modified_tree)
    IN  \A k \in DOMAIN out :
          /\ tree[k].kind = "Import" =>
               LET before == tree[k].names
                   after == out[k].names
                   hits == {i \in DOMAIN before : Hits(before[i], modified_scripts)}
               IN  /\ Len(after) = Len(before)
                   /\ Cardinality(Changed(before, after)) <= 1
                   /\ \A i \in Changed(before, after) :
                         /\ i \in hits
                         /\ \A h \in hits : i <= h
                         /\ SuffixedOnce(before[i], after[i])
                   /\ hits # {} => Changed(before, after) # {}
          /\ tree[k].kind = "ImportFrom" =>
               IF tree[k].module # <<>> /\ Hits(tree[k].module, modified_scripts)
                 THEN SuffixedOnce(tree[k].module, out[k].module)
                 ELSE out[k].module = tree[k].module

\* an import of two units of the set has been visited: the first is
\* renamed, the second is as it was
C12_Witness ==
  /\ pc = "done"
  /\ op = "none"
  /\ \E k \in DOMAIN tree :
        /\ tree[k].kind = "Import"
        /\ Len(tree[k].names) = 2
        /\ \A i \in 1..2 : IsUnit(tree[k].names[i], modified_scripts)
        /\ Original(modified_tree)[k].names
             = <<Sibling(tree[k].names[1]), tree[k].names[2]>>

----------------------------------------------------------------------------
(* C13 *)

\* C13: all along the walk current_function is the name of the innermost
\* function definition open at the node the walk is at, or None when there
\* is none: the visit of a definition leaves it as it found it.  At the end
\* of the pass it is None, and the Exiting statement of a return statement
\* that follows a nested definition names the outer function.
C13_ContextRestored ==
  pc \in {"walking", "done"} =>
    /\ current_function = InnermostFunction(tree, visit_at)
    /\ pc = "done" => current_function = None
    /\ \A j \in DOMAIN modified_tree :
          (/\ modified_tree[j].kind = "Return"
           /\ j > 1
           /\ IsTrace(modified_tree[j - 1], EXITING))
            => TraceFunction(modified_tree[j - 1])
                 = InnermostFunction(modified_tree, j)

\* the walk has left a definition of g nested in f and is at a return
\* statement of f, with f the current function again
C13_Witness ==
  /\ pc = "walking"
  /\ op = "none"
  /\ visit_at \in 2..Len(tree)
  /\ tree[visit_at - 1].kind = "End"
  /\ tree[visit_at].kind = "Return"
  /\ function_call_counter["g"] = 1
  /\ Len(visit_stack) = 1
  /\ Head(visit_stack).kind = "FunctionDef"
  /\ current_function = "f"

----------------------------------------------------------------------------
(* C15 *)

RECURSIVE OpenPositions(_, _)
\* the positions in t of the compound statements open after the first k
\* statements of t, innermost first
OpenPositions(t, k) ==
  IF k = 0 THEN <<>>
  ELSE LET before == OpenPositions(t, k - 1)
       IN  IF t[k].kind \in {"FunctionDef", "Block"} THEN <<k>> \o before
           ELSE IF t[k].kind = "End" THEN Tail(before)
           ELSE before

\* the position in t of the innermost function definition that encloses
\* statement k of t, or 0
InnermostDefinition(t, k) ==
  LET defs == SelectSeq(OpenPositions(t, k - 1),
                        LAMBDA p : t[p].kind = "FunctionDef")
  IN  IF defs = <<>> THEN 0 ELSE Head(defs)

\* the index a trace statement carries
TraceIndex(node) == node.message[1]

\* C15: in the rewritten unit the Exiting statement before a return
\* statement carries the index of the Entering statement of the function
\* definition the return statement belongs to, less one, whatever other
\* definitions the unit holds.
C15_ExitIndexOneLess ==
  pc \in {"walking", "done"} =>
    \A j \in DOMAIN modified_tree :
       LET d == InnermostDefinition(modified_tree, j)
       IN  (/\ modified_tree[j].kind = "Return"
            /\ d # 0)
             => \E n \in 1..Len(tree) :
                   /\ TraceIndex(modified_tree[d + 1]) = IndexText(n)
                   /\ TraceIndex(modified_tree[j - 1]) = IndexText(n - 1)

----------------------------------------------------------------------------
(* C14 *)

\* the aggregator skips the line as malformed
SkippedByAggregator(line) ==
  Contains(line, ENTERING) /\ Len(SplitOn(line, {QUOTE})) < 4

\* the (unit, function) pair the aggregator makes its key of
AggregatorPair(line) ==
  LET parts == SplitOn(line, {QUOTE}) IN <<parts[4], parts[2]>>

\* the (unit, function) pair an entry of the execution flow shows
ShownPair(entry) ==
  LET parts == SplitOn(entry, {TICK}) IN <<parts[4], parts[2]>>

\* the entry the markup scan has appended for the line it read last
LastEntry ==
  LET n == Len(grouped_lines)
  IN  IF grouped_lines[n] = RULE THEN grouped_lines[n - 2] ELSE grouped_lines[n]

\* C14: for every Entering line the aggregator counts, the entry
\* reformat_and_output_log_md appends shows the unit and the function of
\* the aggregator's key for that line; and reformat_and_output_log_md does
\* not fail on a line the aggregator skips as malformed.
C14_SamePairNoFailure ==
  (op \in MdOps /\ SourceExists /\ SourceLines # <<>>) =>
    /\ (pc = "md_scan" /\ pos >= 1
          /\ Contains(lines[pos], ENTERING)
          /\ ~SkippedByAggregator(lines[pos]))
         => ShownPair(LastEntry) = AggregatorPair(lines[pos])
    /\ ~(/\ result = "crashed"
         /\ pos < Len(lines)
         /\ SkippedByAggregator(lines[pos + 1]))

====
